---- MODULE Spec2Model ----
(***************************************************************************)
(* Legacy reimbursement calculation: the five rule layers, the exported    *)
(* tree-ensemble residual, the process-wide model cache and the            *)
(* aggregation of the six rounded components                               *)
(* (src/calculate_reimbursement.py).                                       *)
(***************************************************************************)
EXTENDS Integers, Sequences, FiniteSets, TLC

(***************************************************************************)
(* Decimal arithmetic.                                                     *)
(*                                                                         *)
(* A decimal.Decimal value X is carried as an exact rational E plus the    *)
(* rounding residue the 28-digit context has left on it:                   *)
(*     X = n / (10^a * d)  +  rho / (d * 10^q)                             *)
(* d is 1 for every value that never met a division, and the day count     *)
(* after a division by it; rho = 0 for a value the context never rounded.  *)
(* Every operation forms the exact result and then rounds it to PREC       *)
(* significant digits, half-even, as the default context does.             *)
(***************************************************************************)
PREC == 28

Abs[x \in Int] == IF x < 0 THEN -x ELSE x

Sign[x \in Int] == IF x < 0 THEN -1 ELSE IF x > 0 THEN 1 ELSE 0

Min[x \in Int, y \in Int] == IF x <= y THEN x ELSE y

Max[x \in Int, y \in Int] == IF x >= y THEN x ELSE y

Pow10[k \in Int] ==
    IF k <= 0 THEN 1
    ELSE IF k % 2 = 0 THEN LET h == Pow10[k \div 2] IN h * h
    ELSE 10 * Pow10[k - 1]

PowMod10[k \in Int, m \in Int] ==
    IF k <= 0 THEN 1 % m
    ELSE IF k % 2 = 0 THEN LET h == PowMod10[k \div 2, m] IN (h * h) % m
    ELSE (10 * PowMod10[k - 1, m]) % m

\* The number of decimal digits of k >= 0 (at most 10 in 32 bits).
NumDigits[k \in Int] == CHOOSE i \in 1..10 : k \div Pow10[i - 1] \in 1..9 \/ (i = 1 /\ k = 0)

\* The decimal values: numerator, decimal places, divisor, residue and its scale.
DecValue == [n : Int, a : Int, d : Int, rho : Int, q : Int]

\* Trailing zeros of the coefficient are dropped: the value is unchanged.
Strip[x \in DecValue] ==
    IF x.n = 0 THEN [x EXCEPT !.a = 0]
    ELSE IF x.a > 0 /\ x.n % 10 = 0
         THEN Strip[[x EXCEPT !.n = x.n \div 10, !.a = x.a - 1]]
         ELSE x

Mk[n \in Int, a \in Int, d \in Int, rho \in Int, q \in Int] ==
    Strip[[n |-> n, a |-> a, d |-> d, rho |-> rho, q |-> IF rho = 0 THEN 0 ELSE q]]

\* Decimal('n e-a'): an exact decimal literal or input.
Dec(n, a) == Mk[n, a, 1, 0, 0]

\* The exponent e of the leading digit of |X|: 10^e <= |X| < 10^(e+1).
Adjusted[n \in Int, a \in Int, d \in Int, rho \in Int] ==
    LET whole == n \div d
        e0 == IF whole >= 1 THEN NumDigits[whole] - 1 - a
              ELSE IF n * 10 >= d THEN -1 - a
              ELSE IF n * 100 >= d THEN -2 - a
              ELSE -3 - a
        onPower == whole >= 1 /\ n = Pow10[NumDigits[whole] - 1] * d
    IN  IF onPower /\ rho < 0 THEN e0 - 1 ELSE e0

\* Half-even choice of the quotient t / D, par the parity of the digits kept.
HalfEven[t \in Int, D \in Int, par \in Int] ==
    LET f == t \div D
        rem == t - f * D
    IN  IF 2 * rem > D THEN f + 1
        ELSE IF 2 * rem < D THEN f
        ELSE IF (par + f) % 2 = 0 THEN f ELSE f + 1

\* The residue left on x by rounding |E| at 10^-p, where w is the part of
\* |n| * 10^(p - a) below 2 * d.
RoundResidue[x \in DecValue, p \in Int, w \in Int] ==
    LET sg == Sign[x.n]
        rho == sg * x.rho
        s == w % x.d
        par == w \div x.d
        j == IF rho = 0 THEN 0 ELSE x.q - p
        t == IF j >= 0 THEN s * Pow10[j] + rho ELSE s + rho * Pow10[-j]
        D == IF j >= 0 THEN x.d * Pow10[j] ELSE x.d
    IN  Mk[x.n, x.a, x.d, sg * (HalfEven[t, D, par] * x.d - s), p]

\* x rounded at 10^-p.
RoundAt[x \in DecValue, p \in Int] ==
    RoundResidue[x, p, ((Abs[x.n] % (2 * x.d)) * PowMod10[p - x.a, 2 * x.d]) % (2 * x.d)]

\* The context's rounding of an exact result to PREC significant digits; a
\* decimal of at most PREC digits is left as it is.
Round28[x \in DecValue] ==
    IF x.n = 0 THEN x
    ELSE IF x.d = 1 /\ x.rho = 0 /\ NumDigits[Abs[x.n]] <= PREC THEN x
    ELSE RoundAt[x, (PREC - 1) - Adjusted[Abs[x.n], x.a, x.d, Sign[x.n] * x.rho]]

\* rho in units 10 ^ k finer.
Finer[rho \in Int, k \in Int] == IF rho = 0 THEN 0 ELSE rho * Pow10[k]

\* x * y, one of the two an exact decimal.
DecMul[x \in DecValue, y \in DecValue] ==
    LET u == IF y.d = 1 /\ y.rho = 0 THEN x ELSE y
        c == IF y.d = 1 /\ y.rho = 0 THEN y ELSE x
    IN  Round28[Mk[u.n * c.n, u.a + c.a, u.d, u.rho * c.n, u.q + c.a]]

\* x + y, the two over the same divisor or one of them exact.
DecAdd[x \in DecValue, y \in DecValue] ==
    LET A == Max[x.a, y.a]
        D == Max[x.d, y.d]
        Q == Max[x.q, y.q]
    IN  Round28[Mk[x.n * Pow10[A - x.a] * (D \div x.d) + y.n * Pow10[A - y.a] * (D \div y.d),
                   A, D,
                   Finer[x.rho, Q - x.q] * (D \div x.d) + Finer[y.rho, Q - y.q] * (D \div y.d),
                   Q]]

\* a + b + ... over the operands in order, each operand a value already
\* computed when the sum is taken.
DecSum[operands \in Seq(DecValue)] ==
    IF Len(operands) = 1 THEN operands[1]
    ELSE DecAdd[DecSum[SubSeq(operands, 1, Len(operands) - 1)], operands[Len(operands)]]

DecNeg[x \in DecValue] == [x EXCEPT !.n = -x.n, !.rho = -x.rho]

DecSub[x \in DecValue, y \in DecValue] == DecAdd[x, DecNeg[y]]

\* x / days, x an exact decimal.
DecDiv[x \in DecValue, days \in Int] == Round28[Mk[x.n, x.a, days, 0, 0]]

\* -1, 0, 1 as X < Y, X = Y, X > Y; the two over the same divisor or one of
\* them exact.
DecCmp[x \in DecValue, y \in DecValue] ==
    LET A == Max[x.a, y.a]
        D == Max[x.d, y.d]
        l == x.n * Pow10[A - x.a] * (D \div x.d)
        r == y.n * Pow10[A - y.a] * (D \div y.d)
        Q == Max[x.q, y.q]
        lr == Finer[x.rho, Q - x.q] * (D \div x.d)
        rr == Finer[y.rho, Q - y.q] * (D \div y.d)
    IN  IF l # r THEN Sign[l - r] ELSE Sign[lr - rr]

DecLE[x \in DecValue, y \in DecValue] == DecCmp[x, y] <= 0

DecLT[x \in DecValue, y \in DecValue] == DecCmp[x, y] < 0

DecEq[x \in DecValue, y \in DecValue] == DecCmp[x, y] = 0

DecMin[x \in DecValue, y \in DecValue] == IF DecLE[x, y] THEN x ELSE y

DecMax[x \in DecValue, y \in DecValue] == IF DecLE[y, x] THEN x ELSE y

\* x.quantize(Decimal('0.01'), rounding=ROUND_HALF_UP): the amount in whole
\* cents, ties away from zero; on an exact tie of E the residue decides.
TWO_CENTS == 2

_r[x \in DecValue] ==
    LET sg == Sign[x.n]
        n == Abs[x.n]
        rho == sg * x.rho
        Dn == Pow10[x.a] * x.d
        u == n \div Dn
        t == (n % Dn) * 10
        h == (t % Dn) * 10
        c == (t \div Dn) * 10 + h \div Dn
        rem == h % Dn
        up == 2 * rem > Dn \/ (2 * rem = Dn /\ rho >= 0)
    IN  Dec(sg * (u * Pow10[TWO_CENTS] + c + (IF up THEN 1 ELSE 0)), TWO_CENTS)

(***************************************************************************)
(* Rule tables and constants (amounts in cents or hundredths where the     *)
(* source writes two decimals).                                            *)
(***************************************************************************)
\* Layer 0: daily rates for 1..14 days, in cents.
BASE_PER_DIEM_RATES ==
    <<12000, 10000, 10000, 11000, 11000, 11000, 7500, 6000, 5500,
      5500, 6000, 6000, 5500, 5000>>

\* Layer 1
MILEAGE_TIER_BREAKPOINT == 100

MILEAGE_RATE_LOW == 58

MILEAGE_RATE_HIGH == 15

HIGH_MILEAGE_BONUS_THRESHOLD == 500

HIGH_MILEAGE_BONUS_BASE_RATE == 30

LONG_TRIP_BONUS_THRESHOLD_DAYS == 7

LONG_TRIP_BONUS_THRESHOLD_MILES == 700

LONG_TRIP_BONUS_RATE == 25

LONG_TRIP_MIN_MILES_PER_DAY == 120

\* Layer 2: daily receipt caps for 1..7 days, in cents.
DAILY_RECEIPT_CAPS == <<20000, 15000, 15000, 12000, 12000, 12000, 10000>>

RECEIPT_BASE_RATE == 60

\* (min_days, max_days, rate in hundredths), in the dictionary's order.
RECEIPT_EXCESS_RATES == << <<1, 1, 0>>, <<2, 3, 40>>, <<4, 6, 10>>, <<7, 30, 20>> >>

\* Layer 3
EFFICIENCY_SWEET_SPOT_MIN == 180

EFFICIENCY_SWEET_SPOT_MAX == 220

EFFICIENCY_BONUS_RATE == 15

\* Variant: the rate beyond the table is that of its last row.
get_base_per_diem_rate_last_row(trip_duration_days) ==
    IF trip_duration_days \in DOMAIN BASE_PER_DIEM_RATES
    THEN Dec(BASE_PER_DIEM_RATES[trip_duration_days], 2)
    ELSE Dec(5000, 2)

\* Variant: eight and nine days are paid at the rate of seven.
get_base_per_diem_rate_untuned(trip_duration_days) ==
    IF trip_duration_days \in {8, 9} THEN Dec(BASE_PER_DIEM_RATES[7], 2)
    ELSE IF trip_duration_days \in DOMAIN BASE_PER_DIEM_RATES
    THEN Dec(BASE_PER_DIEM_RATES[trip_duration_days], 2)
    ELSE IF trip_duration_days > 14 THEN Dec(4500, 2)
    ELSE Dec(5000, 2)

get_base_per_diem_rate(trip_duration_days) ==
    IF trip_duration_days \in DOMAIN BASE_PER_DIEM_RATES
    THEN Dec(BASE_PER_DIEM_RATES[trip_duration_days], 2)
    ELSE IF trip_duration_days > 14 THEN Dec(4500, 2)
    ELSE Dec(5000, 2)

get_daily_receipt_cap(trip_duration_days) ==
    IF trip_duration_days \in DOMAIN DAILY_RECEIPT_CAPS
    THEN Dec(DAILY_RECEIPT_CAPS[trip_duration_days], 2)
    ELSE Dec(DAILY_RECEIPT_CAPS[7], 2)

\* Variant: no default, nothing is paid above the cap beyond the last range.
get_receipt_excess_rate_in_ranges(trip_duration_days) ==
    LET hits == {i \in DOMAIN RECEIPT_EXCESS_RATES :
                    /\ RECEIPT_EXCESS_RATES[i][1] <= trip_duration_days
                    /\ trip_duration_days <= RECEIPT_EXCESS_RATES[i][2]}
    IN  IF hits # {}
        THEN Dec(RECEIPT_EXCESS_RATES[CHOOSE i \in hits : \A k \in hits : i <= k][3], 2)
        ELSE Dec(0, 2)

get_receipt_excess_rate(trip_duration_days) ==
    LET hits == {i \in DOMAIN RECEIPT_EXCESS_RATES :
                    /\ RECEIPT_EXCESS_RATES[i][1] <= trip_duration_days
                    /\ trip_duration_days <= RECEIPT_EXCESS_RATES[i][2]}
    IN  IF hits # {}
        THEN Dec(RECEIPT_EXCESS_RATES[CHOOSE i \in hits : \A k \in hits : i <= k][3], 2)
        ELSE Dec(RECEIPT_EXCESS_RATES[4][3], 2)

(***************************************************************************)
(* The five rule layers: each returns the unrounded Decimal.               *)
(***************************************************************************)
\* Variant: at most fourteen days are paid.
calculate_layer_0_per_diem_fourteen(trip_duration_days) ==
    DecMul[get_base_per_diem_rate(trip_duration_days),
           Dec(IF trip_duration_days > 14 THEN 14 ELSE trip_duration_days, 0)]

calculate_layer_0_per_diem(trip_duration_days) ==
    DecMul[get_base_per_diem_rate(trip_duration_days), Dec(trip_duration_days, 0)]

\* Variant: nothing is paid for the miles above the breakpoint.
second_tier_flat(miles) == Dec(0, 2)

\* second_tier = (miles - MILEAGE_TIER_BREAKPOINT) * MILEAGE_RATE_HIGH
second_tier(miles) ==
    DecMul[DecSub[miles, Dec(MILEAGE_TIER_BREAKPOINT, 0)], Dec(MILEAGE_RATE_HIGH, 2)]

\* Variant: the bonus rate is not scaled by the day count.
high_mileage_bonus_unscaled(days, miles) ==
    DecMul[DecSub[miles, Dec(HIGH_MILEAGE_BONUS_THRESHOLD, 0)],
           Dec(HIGH_MILEAGE_BONUS_BASE_RATE, 2)]

\* Variant: every trip of zero days fails in the mileage layer.
high_mileage_bonus_raises_any_miles(days, miles) == days = 0

\* Decimal('1.0') / Decimal(str(days)) raises decimal.DivisionByZero for
\* days = 0; the quotient is taken only above the bonus threshold.
high_mileage_bonus_raises(days, miles) ==
    days = 0 /\ DecLT[Dec(HIGH_MILEAGE_BONUS_THRESHOLD, 0), miles]

\* high_mileage_bonus = (miles - threshold) * base rate * (1.0 + 1.0 / days)
high_mileage_bonus(days, miles) ==
    LET day_scale_factor == DecAdd[Dec(10, 1), DecDiv[Dec(10, 1), days]]
        scaled_bonus_rate == DecMul[Dec(HIGH_MILEAGE_BONUS_BASE_RATE, 2), day_scale_factor]
    IN  DecMul[DecSub[miles, Dec(HIGH_MILEAGE_BONUS_THRESHOLD, 0)], scaled_bonus_rate]

\* Variant: the long-trip amount is taken off instead of added.
calculate_layer_1_mileage_long_penalty(days, miles) ==
    LET tier == IF DecLE[miles, Dec(MILEAGE_TIER_BREAKPOINT, 0)]
                THEN DecMul[miles, Dec(MILEAGE_RATE_LOW, 2)]
                ELSE DecAdd[DecMul[Dec(MILEAGE_TIER_BREAKPOINT, 0), Dec(MILEAGE_RATE_LOW, 2)],
                            second_tier(miles)]
        withHigh == IF DecLT[Dec(HIGH_MILEAGE_BONUS_THRESHOLD, 0), miles]
                    THEN DecAdd[tier, high_mileage_bonus(days, miles)]
                    ELSE tier
    IN  IF /\ days >= LONG_TRIP_BONUS_THRESHOLD_DAYS
           /\ DecLT[Dec(LONG_TRIP_BONUS_THRESHOLD_MILES, 0), miles]
           /\ DecLT[Dec(LONG_TRIP_MIN_MILES_PER_DAY, 0), DecDiv[miles, days]]
        THEN DecSub[withHigh,
                    DecMul[DecSub[miles, Dec(LONG_TRIP_BONUS_THRESHOLD_MILES, 0)],
                           Dec(LONG_TRIP_BONUS_RATE, 2)]]
        ELSE withHigh

calculate_layer_1_mileage(days, miles) ==
    LET tier == IF DecLE[miles, Dec(MILEAGE_TIER_BREAKPOINT, 0)]
                THEN DecMul[miles, Dec(MILEAGE_RATE_LOW, 2)]
                ELSE DecAdd[DecMul[Dec(MILEAGE_TIER_BREAKPOINT, 0), Dec(MILEAGE_RATE_LOW, 2)],
                            second_tier(miles)]
        withHigh == IF DecLT[Dec(HIGH_MILEAGE_BONUS_THRESHOLD, 0), miles]
                    THEN DecAdd[tier, high_mileage_bonus(days, miles)]
                    ELSE tier
    IN  IF /\ days >= LONG_TRIP_BONUS_THRESHOLD_DAYS
           /\ DecLT[Dec(LONG_TRIP_BONUS_THRESHOLD_MILES, 0), miles]
           /\ DecLT[Dec(LONG_TRIP_MIN_MILES_PER_DAY, 0), DecDiv[miles, days]]
        THEN DecAdd[withHigh,
                    DecMul[DecSub[miles, Dec(LONG_TRIP_BONUS_THRESHOLD_MILES, 0)],
                           Dec(LONG_TRIP_BONUS_RATE, 2)]]
        ELSE withHigh

\* int((receipts % Decimal('1.00')) * Decimal('100')): the two digits after
\* the point, further digits truncated.
ReceiptCents(receipts) ==
    LET frac == receipts.n % Pow10[receipts.a]
    IN  IF receipts.a >= 2 THEN frac \div Pow10[receipts.a - 2]
        ELSE frac * Pow10[2 - receipts.a]

\* Variant: the bonus is given for 49 cents only.
has_legacy_bonus_49_only(receipts) == ReceiptCents(receipts) = 49

\* if receipt_cents in [49, 99]
has_legacy_bonus(receipts) == ReceiptCents(receipts) \in {49, 99}

\* Variant: a one-day trip is paid like the others, 60% up to its daily cap
\* and the excess rate of its length above it.
one_day_tiers_capped(receipts) ==
    LET total_cap == DecMul[get_daily_receipt_cap(1), Dec(1, 0)]
    IN  IF DecLE[receipts, total_cap]
        THEN DecMul[receipts, Dec(RECEIPT_BASE_RATE, 2)]
        ELSE DecAdd[DecMul[total_cap, Dec(RECEIPT_BASE_RATE, 2)],
                    DecMul[DecSub[receipts, total_cap], get_receipt_excess_rate(1)]]

\* if days == 1: the three tiers of a single-day trip.
one_day_tiers(receipts) ==
    LET tier1_amount == DecMin[receipts, Dec(50000, 2)]
        remaining1 == DecSub[receipts, tier1_amount]
        tier2_amount == DecMin[remaining1, Dec(100000, 2)]
        remaining2 == DecSub[remaining1, tier2_amount]
        t1 == DecAdd[Dec(0, 2), DecMul[tier1_amount, Dec(60, 2)]]
        t2 == IF DecLT[Dec(0, 2), remaining1]
              THEN DecAdd[t1, DecMul[tier2_amount, Dec(40, 2)]]
              ELSE t1
    IN  IF DecLT[Dec(0, 2), remaining1] /\ DecLT[Dec(0, 2), remaining2]
        THEN DecAdd[t2, DecMul[remaining2, Dec(20, 2)]]
        ELSE t2

calculate_layer_2_receipts(days, receipts) ==
    LET total_cap == DecMul[get_daily_receipt_cap(days), Dec(days, 0)]
        excess_rate == get_receipt_excess_rate(days)
        multi == IF DecLE[receipts, total_cap]
                 THEN DecMul[receipts, Dec(RECEIPT_BASE_RATE, 2)]
                 ELSE DecAdd[DecMul[total_cap, Dec(RECEIPT_BASE_RATE, 2)],
                             DecMul[DecSub[receipts, total_cap], excess_rate]]
        component == IF days = 1 THEN one_day_tiers(receipts) ELSE multi
    IN  IF has_legacy_bonus(receipts)
        THEN DecAdd[component, Dec(500, 2)]
        ELSE component

\* Variant: the sweet spot ends before 220 miles a day.
calculate_layer_3_efficiency_bonus_open(days, miles) ==
    IF days = 0 THEN Dec(0, 2)
    ELSE
    LET miles_per_day == DecDiv[miles, days]
    IN  IF /\ DecLE[Dec(EFFICIENCY_SWEET_SPOT_MIN, 0), miles_per_day]
           /\ DecLT[miles_per_day, Dec(EFFICIENCY_SWEET_SPOT_MAX, 0)]
        THEN DecMul[calculate_layer_1_mileage(days, miles), Dec(EFFICIENCY_BONUS_RATE, 2)]
        ELSE IF DecLT[miles_per_day, Dec(5000, 2)]
        THEN DecNeg[DecMul[calculate_layer_1_mileage(days, miles), Dec(5, 2)]]
        ELSE Dec(0, 2)

calculate_layer_3_efficiency_bonus(days, miles) ==
    IF days = 0 THEN Dec(0, 2)
    ELSE
    LET miles_per_day == DecDiv[miles, days]
    IN  IF /\ DecLE[Dec(EFFICIENCY_SWEET_SPOT_MIN, 0), miles_per_day]
           /\ DecLE[miles_per_day, Dec(EFFICIENCY_SWEET_SPOT_MAX, 0)]
        THEN DecMul[calculate_layer_1_mileage(days, miles), Dec(EFFICIENCY_BONUS_RATE, 2)]
        ELSE IF DecLT[miles_per_day, Dec(5000, 2)]
        THEN DecNeg[DecMul[calculate_layer_1_mileage(days, miles), Dec(5, 2)]]
        ELSE Dec(0, 2)

\* Variant: no five-day bonus.
calculate_layer_4_special_cases_no_five(days, miles, receipts) ==
    LET total_trip_value == DecAdd[receipts, miles]
        high == IF DecLT[Dec(150000, 2), total_trip_value] THEN Dec(2500, 2) ELSE Dec(0, 2)
        single == IF days = 1 /\ (DecLT[Dec(500, 0), miles] \/ DecLT[Dec(100000, 2), receipts])
                  THEN Dec(5000, 2) ELSE Dec(0, 2)
    IN  DecAdd[DecAdd[Dec(0, 2), high], single]

\* Variant: the high-value bonus starts at 1500 itself.
calculate_layer_4_special_cases_from_1500(days, miles, receipts) ==
    LET five == IF days = 5 THEN Dec(1500, 2) ELSE Dec(0, 2)
        total_trip_value == DecAdd[receipts, miles]
        high == IF DecLE[Dec(150000, 2), total_trip_value] THEN Dec(2500, 2) ELSE Dec(0, 2)
        single == IF days = 1 /\ (DecLT[Dec(500, 0), miles] \/ DecLT[Dec(100000, 2), receipts])
                  THEN Dec(5000, 2) ELSE Dec(0, 2)
    IN  DecAdd[DecAdd[DecAdd[Dec(0, 2), five], high], single]

calculate_layer_4_special_cases(days, miles, receipts) ==
    LET five == IF days = 5 THEN Dec(1500, 2) ELSE Dec(0, 2)
        total_trip_value == DecAdd[receipts, miles]
        high == IF DecLT[Dec(150000, 2), total_trip_value] THEN Dec(2500, 2) ELSE Dec(0, 2)
        single == IF days = 1 /\ (DecLT[Dec(500, 0), miles] \/ DecLT[Dec(100000, 2), receipts])
                  THEN Dec(5000, 2) ELSE Dec(0, 2)
    IN  DecAdd[DecAdd[DecAdd[Dec(0, 2), five], high], single]

(***************************************************************************)
(* Binary floating point of the residual path.                             *)
(*                                                                         *)
(* A float of the model artifact or of a prediction is m / 2^e.  The       *)
(* artifacts of the model carry numbers with a few binary digits, on       *)
(* which the double arithmetic of the source is exact: sums and products   *)
(* are formed exactly.  A feature is the rational n / d of the trip input; *)
(* against a threshold m / 2^e the comparison of the doubles and the       *)
(* comparison of the rationals agree.                                      *)
(***************************************************************************)
Pow2[k \in Int] == IF k <= 0 THEN 1 ELSE 2 * Pow2[k - 1]

Pow5[k \in Int] == IF k <= 0 THEN 1 ELSE 5 * Pow5[k - 1]

\* A double m / 2^e.
FltValue == [m : Int, e : Int]

FltNorm[x \in FltValue] ==
    IF x.m = 0 THEN [m |-> 0, e |-> 0]
    ELSE IF x.e > 0 /\ x.m % 2 = 0 THEN FltNorm[[m |-> x.m \div 2, e |-> x.e - 1]]
    ELSE x

Flt(m, e) == FltNorm[[m |-> m, e |-> e]]

FltAdd[x \in FltValue, y \in FltValue] ==
    LET E == Max[x.e, y.e]
    IN  Flt(x.m * Pow2[E - x.e] + y.m * Pow2[E - y.e], E)

FltMul[x \in FltValue, y \in FltValue] == Flt(x.m * y.m, x.e + y.e)

FltHalf[x \in FltValue] == Flt(x.m, x.e + 1)

\* Decimal(str(x)): the shortest decimal that reads back as the double x is,
\* for m / 2^e, its exact expansion m * 5^e / 10^e.
DecOfFloat[x \in FltValue] == Dec(x.m * Pow5[x.e], x.e)

\* A feature value n / d.
Rat(n, d) == [n |-> n, d |-> d]

RatValue == [n : Int, d : Int]

\* float(x) of an exact decimal, as a feature.
RatOfDec(x) == Rat(x.n, Pow10[x.a])

\* Variant: strict comparison.
FeatLT(f, threshold) == f.n * Pow2[threshold.e] < threshold.m * f.d

\* features[feat] <= threshold
FeatLE(f, threshold) == f.n * Pow2[threshold.e] <= threshold.m * f.d

\* np.log1p on the grid of halves: the least k / 2 with log1p(x) <= k / 2,
\* that is x <= e^(k/2) - 1; EXPM1_HALF[k] is floor(1000 * (e^(k/2) - 1)).
\* Every comparison with a threshold that is a multiple of 1/2 is that of
\* log1p(x) itself.
EXPM1_HALF ==
    <<648, 1718, 3481, 6389, 11182, 19085, 32115, 53598, 89017, 147413,
      243691, 402428, 664141, 1095633, 1807042, 2979957, 4913768, 8102083>>

log1p(x) ==
    IF x.n = 0 THEN Rat(0, 2)
    ELSE LET mills == (x.n * Pow10[3]) \div x.d
             exact == (x.n * Pow10[3]) % x.d = 0
             ks == {k \in DOMAIN EXPM1_HALF :
                       mills < EXPM1_HALF[k] \/ (mills = EXPM1_HALF[k] /\ exact)}
         IN  Rat(CHOOSE k \in ks : \A l \in ks : k <= l, 2)

DEFAULT_FEATURES ==
    <<"trip_duration_days", "miles_traveled", "total_receipts_amount",
      "miles_per_day", "receipts_per_day">>

DEFAULT_SHRINK == 9

DEFAULT_CAP == 600

None == [none |-> TRUE]

Ok(v) == [ok |-> TRUE, val |-> v]

Raise(e) == [ok |-> FALSE, err |-> e]

\* The derived feature dictionary of a trip.
feature_dict(days, miles, receipts) ==
    LET miles_per_day == IF days > 0 THEN Rat(miles.n, Pow10[miles.a] * days) ELSE Rat(0, 1)
        receipts_per_day == IF days > 0 THEN Rat(receipts.n, Pow10[receipts.a] * days)
                            ELSE Rat(0, 1)
    IN  [trip_duration_days |-> Rat(days, 1),
         miles_traveled |-> RatOfDec(miles),
         total_receipts_amount |-> RatOfDec(receipts),
         miles_per_day |-> miles_per_day,
         receipts_per_day |-> receipts_per_day,
         log_receipts |-> log1p(RatOfDec(receipts)),
         log_miles |-> log1p(RatOfDec(miles)),
         is_one_day_big |-> IF days = 1 /\ DecLT[Dec(1000, 0), receipts]
                            THEN Rat(1, 1) ELSE Rat(0, 1),
         is_long_hi_eff |-> IF days >= 7 /\ miles_per_day.n > 150 * miles_per_day.d
                            THEN Rat(1, 1) ELSE Rat(0, 1)]

\* Variant: names missing from the dictionary get 1.0.
feature_vector_default_one(model, days, miles, receipts) ==
    LET model_features == IF "features" \in DOMAIN model THEN model.features
                          ELSE DEFAULT_FEATURES
        fd == feature_dict(days, miles, receipts)
    IN  [i \in DOMAIN model_features |->
            IF model_features[i] \in DOMAIN fd THEN fd[model_features[i]] ELSE Rat(1, 1)]

\* features = [feature_dict.get(fname, 0.0) for fname in model_features]
feature_vector(model, days, miles, receipts) ==
    LET model_features == IF "features" \in DOMAIN model THEN model.features
                          ELSE DEFAULT_FEATURES
        fd == feature_dict(days, miles, receipts)
    IN  [i \in DOMAIN model_features |->
            IF model_features[i] \in DOMAIN fd THEN fd[model_features[i]] ELSE Rat(0, 1)]

(***************************************************************************)
(* Tree evaluator.  A tree is the sequence of its nodes, node index k of   *)
(* the source at position k + 1; feat is the source's 0-based index.       *)
(***************************************************************************)
\* list[k] of Python: a negative k counts from the end.
PyIndex(list, k) == IF k < 0 THEN list[Len(list) + k + 1] ELSE list[k + 1]

IsLeaf(node) == node.left = -1 /\ node.right = -1

\* The while-loop of one tree from node_idx: the leaf's value.
RECURSIVE WalkTree(_, _, _)
WalkTree(tree, features, node_idx) ==
    LET node == PyIndex(tree, node_idx)
    IN  IF IsLeaf(node) THEN node.value
        ELSE IF FeatLE(PyIndex(features, node.feat), node.threshold)
             THEN WalkTree(tree, features, node.left)
             ELSE WalkTree(tree, features, node.right)

\* Variant: the child is read before the leaf test, past a leaf too.
RECURSIVE VisitedNodes_past_leaf(_, _, _)
VisitedNodes_past_leaf(tree, features, node_idx) ==
    LET node == PyIndex(tree, node_idx)
    IN  IF node_idx < 0 THEN <<node_idx>>
        ELSE <<node_idx>>
             \o VisitedNodes_past_leaf(tree, features,
                                       IF IsLeaf(node) THEN node.left
                                       ELSE IF FeatLE(PyIndex(features, node.feat),
                                                      node.threshold)
                                       THEN node.left
                                       ELSE node.right)

\* The values node_idx takes in the while-loop of one tree, in order: the
\* indices at which tree[node_idx] is read.
RECURSIVE VisitedNodes(_, _, _)
VisitedNodes(tree, features, node_idx) ==
    LET node == PyIndex(tree, node_idx)
    IN  IF IsLeaf(node) THEN <<node_idx>>
        ELSE <<node_idx>>
             \o VisitedNodes(tree, features,
                             IF FeatLE(PyIndex(features, node.feat), node.threshold)
                             THEN node.left
                             ELSE node.right)

RECURSIVE SumTrees(_, _, _, _)
SumTrees(model, features, i, total_prediction) ==
    IF i > Len(model.trees) THEN total_prediction
    ELSE SumTrees(model, features, i + 1,
                  FltAdd[total_prediction,
                         FltMul[WalkTree(model.trees[i], features, 0), model.learning_rate]])

_predict_single_model(model, features) ==
    IF "init_prediction" \notin DOMAIN model \/ "trees" \notin DOMAIN model
    THEN Raise("KeyError")
    ELSE IF model.trees # <<>> /\ "learning_rate" \notin DOMAIN model
    THEN Raise("KeyError")
    ELSE Ok(SumTrees(model, features, 1, model.init_prediction))

(***************************************************************************)
(* Residual predictor; model is what _load_gbm_model has returned.         *)
(***************************************************************************)
\* Variant: the cap is applied to the raw prediction and the shrink afterwards.
_predict_ml_residual_cap_first(model, days, miles, receipts) ==
    IF model = None THEN Ok(Dec(0, 2))
    ELSE
    LET total_prediction[features \in Seq(RatValue)] ==
            IF "is_ensemble" \in DOMAIN model /\ model.is_ensemble
            THEN Ok(FltHalf[FltAdd[_predict_single_model(model.model1, features).val,
                                   _predict_single_model(model.model2, features).val]])
            ELSE _predict_single_model(model, features)
        raw_prediction == total_prediction[feature_vector(model, days, miles, receipts)]
        SHRINK == IF "shrink" \in DOMAIN model THEN model.shrink ELSE Dec(DEFAULT_SHRINK, 1)
        CAP == IF "cap" \in DOMAIN model THEN model.cap ELSE Dec(DEFAULT_CAP, 0)
    IN  Ok(DecMul[DecMax[DecMin[DecOfFloat[raw_prediction.val], CAP], DecNeg[CAP]], SHRINK])

\* Variant: no guard for the absent model; model.get fails on None.
_predict_ml_residual_no_guard(model, days, miles, receipts) ==
    IF model = None THEN Raise("AttributeError")
    ELSE _predict_ml_residual_cap_first(model, days, miles, receipts)

\* Variant: shrink and cap applied to each sub-model, the mean taken last.
_predict_ml_residual_each(model, days, miles, receipts) ==
    IF model = None THEN Ok(Dec(0, 2))
    ELSE
    LET SHRINK == IF "shrink" \in DOMAIN model THEN model.shrink ELSE Dec(DEFAULT_SHRINK, 1)
        CAP == IF "cap" \in DOMAIN model THEN model.cap ELSE Dec(DEFAULT_CAP, 0)
        post[x \in FltValue] ==
            DecMax[DecMin[DecMul[DecOfFloat[x], SHRINK], CAP], DecNeg[CAP]]
        residual[features \in Seq(RatValue)] ==
            IF "is_ensemble" \in DOMAIN model /\ model.is_ensemble
            THEN DecMul[DecAdd[post[_predict_single_model(model.model1, features).val],
                               post[_predict_single_model(model.model2, features).val]],
                        Dec(5, 1)]
            ELSE post[_predict_single_model(model, features).val]
    IN  Ok(residual[feature_vector(model, days, miles, receipts)])

_predict_ml_residual(model, days, miles, receipts) ==
    IF model = None THEN Ok(Dec(0, 2))
    ELSE
    LET is_ensemble == "is_ensemble" \in DOMAIN model /\ model.is_ensemble
        prediction1(features) == IF "model1" \in DOMAIN model
                                 THEN _predict_single_model(model.model1, features)
                                 ELSE Raise("KeyError")
        prediction2(features) == IF "model2" \in DOMAIN model
                                 THEN _predict_single_model(model.model2, features)
                                 ELSE Raise("KeyError")
        \* total_prediction over the one feature vector of the call
        total_prediction[features \in Seq(RatValue)] ==
            IF is_ensemble
            THEN IF ~prediction1(features).ok THEN prediction1(features)
                 ELSE IF ~prediction2(features).ok THEN prediction2(features)
                 ELSE Ok(FltHalf[FltAdd[prediction1(features).val,
                                        prediction2(features).val]])
            ELSE _predict_single_model(model, features)
        raw_prediction == total_prediction[feature_vector(model, days, miles, receipts)]
        SHRINK == IF "shrink" \in DOMAIN model THEN model.shrink ELSE Dec(DEFAULT_SHRINK, 1)
        CAP == IF "cap" \in DOMAIN model THEN model.cap ELSE Dec(DEFAULT_CAP, 0)
    IN  IF ~raw_prediction.ok THEN raw_prediction
        ELSE Ok(DecMax[DecMin[DecMul[DecOfFloat[raw_prediction.val], SHRINK], CAP],
                       DecNeg[CAP]])

(***************************************************************************)
(* Aggregator.                                                             *)
(***************************************************************************)
\* Variant: the unrounded components are summed and the sum is rounded once.
calculate_reimbursement_round_last(model, trip_duration_days, miles_traveled, total_receipts_amount) ==
    LET ml_residual == _predict_ml_residual(model, trip_duration_days, miles_traveled,
                                            total_receipts_amount)
    IN  IF ~ml_residual.ok THEN ml_residual
        ELSE Ok(_r[DecSum[<<calculate_layer_0_per_diem(trip_duration_days),
                            calculate_layer_1_mileage(trip_duration_days, miles_traveled),
                            calculate_layer_2_receipts(trip_duration_days,
                                                       total_receipts_amount),
                            calculate_layer_3_efficiency_bonus(trip_duration_days,
                                                               miles_traveled),
                            calculate_layer_4_special_cases(trip_duration_days,
                                                            miles_traveled,
                                                            total_receipts_amount),
                            ml_residual.val>>]])

calculate_reimbursement(model, trip_duration_days, miles_traveled, total_receipts_amount) ==
    LET per_diem_component == _r[calculate_layer_0_per_diem(trip_duration_days)]
        mileage_component == _r[calculate_layer_1_mileage(trip_duration_days, miles_traveled)]
        receipt_component ==
            _r[calculate_layer_2_receipts(trip_duration_days, total_receipts_amount)]
        efficiency_component ==
            _r[calculate_layer_3_efficiency_bonus(trip_duration_days, miles_traveled)]
        special_component ==
            _r[calculate_layer_4_special_cases(trip_duration_days, miles_traveled,
                                               total_receipts_amount)]
        ml_residual == _predict_ml_residual(model, trip_duration_days, miles_traveled,
                                            total_receipts_amount)
    IN  IF high_mileage_bonus_raises(trip_duration_days, miles_traveled)
        THEN Raise("DivisionByZero")
        ELSE IF ~ml_residual.ok THEN ml_residual
        ELSE Ok(DecSum[<<per_diem_component, mileage_component, receipt_component,
                         efficiency_component, special_component,
                         _r[ml_residual.val]>>])

\* The printed components and the total returned: their sum, left to right.
Breakdown[components \in Seq(DecValue)] ==
    [breakdown |-> components, total |-> DecSum[components]]

\* Variant: the breakdown leaves the special component out of the total.
debug_calculation_no_special(model, trip_duration_days, miles_traveled, total_receipts_amount) ==
    LET ml_residual == _predict_ml_residual(model, trip_duration_days, miles_traveled,
                                            total_receipts_amount)
    IN  IF high_mileage_bonus_raises(trip_duration_days, miles_traveled)
        THEN Raise("DivisionByZero")
        ELSE IF ~ml_residual.ok THEN ml_residual
        ELSE Ok(Breakdown[<<calculate_layer_0_per_diem(trip_duration_days),
                            calculate_layer_1_mileage(trip_duration_days, miles_traveled),
                            calculate_layer_2_receipts(trip_duration_days,
                                                       total_receipts_amount),
                            calculate_layer_3_efficiency_bonus(trip_duration_days,
                                                               miles_traveled),
                            Dec(0, 2),
                            ml_residual.val>>])

\* per_diem + mileage + receipt + efficiency + special + ml_residual, none of
\* them rounded: what is printed and what is returned.
debug_calculation(model, trip_duration_days, miles_traveled, total_receipts_amount) ==
    LET ml_residual == _predict_ml_residual(model, trip_duration_days, miles_traveled,
                                            total_receipts_amount)
    IN  IF high_mileage_bonus_raises(trip_duration_days, miles_traveled)
        THEN Raise("DivisionByZero")
        ELSE IF ~ml_residual.ok THEN ml_residual
        ELSE Ok(Breakdown[<<calculate_layer_0_per_diem(trip_duration_days),
                            calculate_layer_1_mileage(trip_duration_days, miles_traveled),
                            calculate_layer_2_receipts(trip_duration_days,
                                                       total_receipts_amount),
                            calculate_layer_3_efficiency_bonus(trip_duration_days,
                                                               miles_traveled),
                            calculate_layer_4_special_cases(trip_duration_days,
                                                            miles_traveled,
                                                            total_receipts_amount),
                            ml_residual.val>>])

(***************************************************************************)
(* Model loader: the process-wide cache _GBM_MODEL and the artifact file.  *)
(***************************************************************************)
NoFile == [absent |-> TRUE]

\* with open(model_path) as f: json.load(f); FileNotFoundError when absent.
open_and_load(file) == IF file = NoFile THEN Raise("FileNotFoundError") ELSE Ok(file)

\* Variant: the value returned is the cache as it was on entry.
_load_gbm_model_stale(cache, file) ==
    LET read == open_and_load(file)
        assigned == IF cache # None THEN cache
                    ELSE IF read.ok THEN read.val ELSE None
    IN  [cache |-> assigned, ret |-> cache, opened |-> cache = None]

\* Variant: the file is read on every call, cached or not.
_load_gbm_model_reload(cache, file) ==
    LET read == open_and_load(file)
        assigned == IF read.ok THEN read.val ELSE None
    IN  [cache |-> assigned, ret |-> assigned, opened |-> TRUE]

\* One whole call of _load_gbm_model: the cache it leaves, what it returns,
\* and whether it has opened the file.
_load_gbm_model(cache, file) ==
    LET read == open_and_load(file)
        assigned == IF cache # None THEN cache
                    ELSE IF read.ok THEN read.val ELSE None
    IN  [cache |-> assigned, ret |-> assigned, opened |-> cache = None]

(***************************************************************************)
(* Model artifacts and trip inputs of the model.                           *)
(***************************************************************************)
\* An exported node: a leaf has feat -2, threshold -2.0 and both children -1.
Leaf(v) == [feat |-> -2, threshold |-> Flt(-2, 0), left |-> -1, right |-> -1, value |-> v]

Node(feat, threshold, left, right, v) ==
    [feat |-> feat, threshold |-> threshold, left |-> left, right |-> right, value |-> v]

\* days <= 5 ? a : b
StumpDays(a, b) == <<Node(0, Flt(5, 0), 1, 2, Flt(1, 0)), Leaf(a), Leaf(b)>>

\* miles_per_day <= 150 ? (total_receipts_amount <= 500.5 ? x : y) : z
TreeEff(x, y, z) ==
    <<Node(3, Flt(150, 0), 1, 4, Flt(1, 1)), Node(2, Flt(1001, 1), 2, 3, Flt(3, 0)),
      Leaf(x), Leaf(y), Leaf(z)>>

\* miles_traveled <= 1000 ? x : y
StumpMiles(x, y) == <<Node(1, Flt(1000, 0), 1, 2, Flt(0, 0)), Leaf(x), Leaf(y)>>

Trees(v) ==
    <<StumpDays(Flt(v, 0), Flt(-v, 1)), TreeEff(Flt(3 * v, 1), Flt(-5 * v, 0), Flt(v, 0)),
      StumpMiles(Flt(v, 1), Flt(-3 * v, 0))>>

SubModel(init, lr, trees) ==
    [init_prediction |-> init, learning_rate |-> lr, n_estimators |-> Len(trees),
     max_depth |-> 2, trees |-> trees]

\* The exported single model, shrink and cap left to the defaults.
SingleDoc(init, v) ==
    [features |-> DEFAULT_FEATURES, trees |-> Trees(v), learning_rate |-> Flt(1, 1),
     n_estimators |-> 3, max_depth |-> 2, init_prediction |-> init]

\* The same with the post-processing scalars set.
TunedDoc(init, v, shrink, cap) ==
    [features |-> DEFAULT_FEATURES, trees |-> Trees(v), learning_rate |-> Flt(1, 1),
     n_estimators |-> 3, max_depth |-> 2, init_prediction |-> init,
     shrink |-> shrink, cap |-> cap]

\* The two-model ensemble, as the ensemble test builds it from a single model.
EnsembleDoc(init, v, shrink, cap) ==
    [features |-> DEFAULT_FEATURES, is_ensemble |-> TRUE, shrink |-> shrink, cap |-> cap,
     model1 |-> SubModel(init, Flt(1, 1), SubSeq(Trees(v), 1, 2)),
     model2 |-> SubModel(init, Flt(1, 2), SubSeq(Trees(v), 2, 3))]

\* A tree whose root has one child index -1: the root is no leaf, and index
\* -1 is the last node.  days <= 5 ? b : a
HalfLeafDoc(init, v) ==
    [features |-> DEFAULT_FEATURES,
     trees |-> <<<<Node(0, Flt(5, 0), -1, 1, Flt(1, 0)), Leaf(Flt(v, 0)), Leaf(Flt(-v, 1))>>>>,
     learning_rate |-> Flt(1, 1), n_estimators |-> 1, max_depth |-> 1,
     init_prediction |-> init]

\* A model trained on a feature list with names the runtime does not derive:
\* day_of_week <= 0 ? (miles_traveled <= 1000 ? a : b) : c, and
\* season <= -0.5 ? a : (log_miles <= 6.5 ? b : c).
UnknownFeatureDoc(init, v) ==
    [features |-> <<"trip_duration_days", "day_of_week", "log_miles", "miles_traveled",
                    "season", "is_long_hi_eff">>,
     trees |-> <<<<Node(1, Flt(0, 0), 1, 4, Flt(0, 0)), Node(3, Flt(1000, 0), 2, 3, Flt(0, 0)),
                   Leaf(Flt(v, 0)), Leaf(Flt(-v, 1)), Leaf(Flt(9 * v, 0))>>,
                 <<Node(4, Flt(-1, 1), 1, 2, Flt(0, 0)), Leaf(Flt(7 * v, 0)),
                   Node(2, Flt(13, 1), 3, 4, Flt(0, 0)), Leaf(Flt(v, 1)), Leaf(Flt(-v, 0))>>>>,
     learning_rate |-> Flt(1, 1), n_estimators |-> 2, max_depth |-> 2,
     init_prediction |-> init]

NotEnsembleDoc(init, v) ==
    [features |-> DEFAULT_FEATURES, is_ensemble |-> FALSE, trees |-> Trees(v),
     learning_rate |-> Flt(1, 2), n_estimators |-> 3, max_depth |-> 2,
     init_prediction |-> init]

InitPredictions == {Flt(-7, 2), Flt(11, 1)}

LeafScales == {3, 700}

\* (shrink, cap) pairs of the artifacts.
ShrinkCaps ==
    {<<Dec(5, 1), Dec(2, 0)>>, <<Dec(1, 0), Dec(0, 0)>>, <<Dec(25, 2), Dec(105, 1)>>,
     <<Dec(9, 1), Dec(-5, 0)>>}

EvalDocs ==
    {SingleDoc(i, v) : i \in InitPredictions, v \in LeafScales}
    \cup {TunedDoc(i, v, sc[1], sc[2]) : i \in InitPredictions, v \in LeafScales, sc \in ShrinkCaps}
    \cup {EnsembleDoc(i, v, sc[1], sc[2]) : i \in InitPredictions, v \in LeafScales,
                                            sc \in ShrinkCaps}
    \cup {NotEnsembleDoc(i, v) : i \in InitPredictions, v \in LeafScales}
    \cup {HalfLeafDoc(Flt(-7, 2), 3)}
    \cup {UnknownFeatureDoc(Flt(11, 1), 3)}

\* The fields the artifact's schema lists for a single model.
SchemaFields ==
    {"features", "trees", "learning_rate", "n_estimators", "max_depth", "init_prediction"}

\* A JSON document without one of its keys.
Omit(doc, field) == [k \in DOMAIN doc \ {field} |-> doc[k]]

\* Documents that parse and lack one schema field.
SchemaDocs == {Omit(SingleDoc(i, 3), f) : i \in InitPredictions, f \in SchemaFields}

\* Artifacts of the long-running process.
Docs == {SingleDoc(Flt(-7, 2), 3), EnsembleDoc(Flt(11, 1), 700, Dec(9, 1), Dec(600, 0))}

\* A trip: days, miles in hundredths of a mile, receipts in thousandths.
Trip(days, miles, receipts) == [days |-> days, miles |-> miles, receipts |-> receipts]

EvalDays == {1, 5, 7, 12}

EvalMiles == {0, 50025, 100000, 120000}

EvalReceipts == {0, 148495, 750000, 1200990}

EvalTrips == {Trip(d, m, r) : d \in EvalDays, m \in EvalMiles, r \in EvalReceipts}

Trips == {Trip(1, 0, 0), Trip(5, 100000, 750000), Trip(7, 120000, 148490)}

MaxOpens == 2

NumThreads == 2

Threads == 1..NumThreads

(***************************************************************************)
(* State.                                                                  *)
(***************************************************************************)
VARIABLES
    artifact,      \* the file at model_path: NoFile or the document it holds
    _GBM_MODEL,    \* the process-wide cache: None or the loaded document
    opens,         \* how many times the artifact file has been opened
    last,          \* the last completed call of calculate_reimbursement
    probe,         \* a trip whose first result is remembered
    first,         \* the first completed call on the probe trip
    changed,       \* the artifact has been replaced or removed since the start
    first_use,     \* "none", or whether the artifact was there at the first call
    pc,            \* per thread: its position inside _load_gbm_model
    local,         \* per thread: what json.load has returned to it
    ret,           \* per thread: what _load_gbm_model has returned to it
    argv,          \* the command line's arguments after the script name
    stdout,        \* lines printed to the standard output
    stderr,        \* lines printed to the standard error stream
    exit_status,   \* empty while the script has not exited, else its exit code
    parts          \* the components of one total evaluated so far, by position

vars ==
    <<artifact, _GBM_MODEL, opens, last, probe, first, changed, first_use, pc, local, ret,
      argv, stdout, stderr, exit_status, parts>>

cliVars == <<argv, stdout, stderr, exit_status>>

NoCall == [called |-> FALSE]

threadVars == <<pc, local, ret>>

callVars == <<last, probe, first, first_use>>

\* The load a call of calculate_reimbursement performs: the residual, and
\* with it the loader, is reached only when the rule layers have returned.
model_load(cache, file, days, miles) ==
    IF high_mileage_bonus_raises(days, miles)
    THEN [ret |-> cache, cache |-> cache, opened |-> FALSE]
    ELSE _load_gbm_model(cache, file)

\* What one call of calculate_reimbursement(trip) does and leaves behind.
CallRecord(trip, file, cache) ==
    LET d0 == trip.days
        m0 == Dec(trip.miles, 2)
        r0 == Dec(trip.receipts, 3)
        ld == model_load(cache, file, d0, m0)
        mdl == ld.ret
        fv == IF mdl = None THEN <<>> ELSE feature_vector(mdl, d0, m0, r0)
        ens == mdl # None /\ "is_ensemble" \in DOMAIN mdl /\ mdl.is_ensemble
        raises == high_mileage_bonus_raises(d0, m0)
    IN  [called |-> TRUE,
         trip |-> trip,
         present |-> file # NoFile,
         cached |-> cache # None,
         model |-> mdl,
         features |-> IF raises THEN <<>> ELSE fv,
         layers |-> IF raises THEN <<calculate_layer_0_per_diem(d0)>>
                    ELSE <<calculate_layer_0_per_diem(d0),
                           calculate_layer_1_mileage(d0, m0),
                           calculate_layer_2_receipts(d0, r0),
                           calculate_layer_3_efficiency_bonus(d0, m0),
                           calculate_layer_4_special_cases(d0, m0, r0)>>,
         components |-> IF raises THEN <<_r[calculate_layer_0_per_diem(d0)]>>
                        ELSE <<_r[calculate_layer_0_per_diem(d0)],
                               _r[calculate_layer_1_mileage(d0, m0)],
                               _r[calculate_layer_2_receipts(d0, r0)],
                               _r[calculate_layer_3_efficiency_bonus(d0, m0)],
                               _r[calculate_layer_4_special_cases(d0, m0, r0)]>>,
         predictions |-> IF raises \/ mdl = None THEN <<>>
                         ELSE IF ens
                         THEN <<_predict_single_model(mdl.model1, fv),
                                _predict_single_model(mdl.model2, fv)>>
                         ELSE <<_predict_single_model(mdl, fv)>>,
         residual |-> IF raises THEN Raise("DivisionByZero")
                      ELSE _predict_ml_residual(mdl, d0, m0, r0),
         out |-> calculate_reimbursement(mdl, d0, m0, r0)]

(***************************************************************************)
(* The single-threaded process: calls of calculate_reimbursement, and the  *)
(* environment replacing or removing the artifact between them.            *)
(***************************************************************************)
Call(trip) ==
    \E ld \in {model_load(_GBM_MODEL, artifact, trip.days, Dec(trip.miles, 2))},
       rec \in {CallRecord(trip, artifact, _GBM_MODEL)} :
        /\ ld.opened => opens < MaxOpens
        /\ _GBM_MODEL' = ld.cache
        /\ opens' = IF ld.opened THEN opens + 1 ELSE opens
        /\ last' = rec
        /\ first' = IF first = NoCall /\ trip = probe THEN rec ELSE first
        /\ first_use' = IF first_use # "none" \/ high_mileage_bonus_raises(trip.days, Dec(trip.miles, 2))
                        THEN first_use
                        ELSE IF artifact = NoFile THEN "absent" ELSE "present"
        /\ UNCHANGED <<parts, cliVars, artifact, probe, changed, threadVars>>

PutArtifact(doc) ==
    /\ doc # artifact
    /\ artifact' = doc
    /\ changed' = TRUE
    /\ UNCHANGED <<parts, cliVars, _GBM_MODEL, opens, callVars, threadVars>>

RemoveArtifact ==
    /\ artifact # NoFile
    /\ artifact' = NoFile
    /\ changed' = TRUE
    /\ UNCHANGED <<parts, cliVars, _GBM_MODEL, opens, callVars, threadVars>>

InitCommon ==
    /\ _GBM_MODEL = None
    /\ opens = 0
    /\ last = NoCall
    /\ first = NoCall
    /\ changed = FALSE
    /\ first_use = "none"
    /\ pc = [t \in Threads |-> "idle"]
    /\ local = [t \in Threads |-> None]
    /\ ret = [t \in Threads |-> None]
    /\ argv = <<>>
    /\ stdout = <<>>
    /\ stderr = <<>>
    /\ exit_status = <<>>
    /\ parts = <<>>

Init ==
    /\ artifact \in Docs \cup {NoFile}
    /\ probe \in Trips
    /\ InitCommon

Next ==
    \/ \E trip \in Trips : Call(trip)
    \/ \E doc \in Docs : PutArtifact(doc)
    \/ RemoveArtifact

Spec == Init /\ [][Next]_vars

(***************************************************************************)
(* One call in a fresh process, over the wider artifacts and trips.        *)
(***************************************************************************)
EvalCall(trip) == last = NoCall /\ Call(trip)

EvalInit ==
    /\ artifact \in EvalDocs \cup {NoFile}
    /\ probe = Trip(1, 0, 0)
    /\ InitCommon

EvalNext == \E trip \in EvalTrips : EvalCall(trip)

EvalSpec == EvalInit /\ [][EvalNext]_vars

\* The six components of one total evaluated one at a time in any order, in
\* a fresh process; position 6 is the residual, which loads the model.
\* Variant: the residual is given the mileage component when it is there.
residual_arguments_from_rules(trip, done) ==
    <<trip.days, IF 2 \in DOMAIN done THEN done[2] ELSE Dec(trip.miles, 2),
      Dec(trip.receipts, 3)>>

\* _predict_ml_residual(days, miles, receipts): the raw inputs.
residual_arguments(trip, done) == <<trip.days, Dec(trip.miles, 2), Dec(trip.receipts, 3)>>

Evaluate(i) ==
    /\ i \notin DOMAIN parts
    /\ last = NoCall
    /\ IF i = 6
       THEN \E ld \in {_load_gbm_model(_GBM_MODEL, artifact)},
               args \in {residual_arguments(probe, parts)} :
               /\ parts' = parts @@ (6 :> _r[_predict_ml_residual(ld.ret, args[1], args[2],
                                                                  args[3]).val])
               /\ _GBM_MODEL' = ld.cache
               /\ opens' = IF ld.opened THEN opens + 1 ELSE opens
       ELSE /\ parts' = parts @@ (i :>
                   CASE i = 1 -> _r[calculate_layer_0_per_diem(probe.days)]
                     [] i = 2 -> _r[calculate_layer_1_mileage(probe.days, Dec(probe.miles, 2))]
                     [] i = 3 -> _r[calculate_layer_2_receipts(probe.days,
                                                               Dec(probe.receipts, 3))]
                     [] i = 4 -> _r[calculate_layer_3_efficiency_bonus(probe.days,
                                                                       Dec(probe.miles, 2))]
                     [] i = 5 -> _r[calculate_layer_4_special_cases(probe.days,
                                                                    Dec(probe.miles, 2),
                                                                    Dec(probe.receipts, 3))])
            /\ UNCHANGED <<_GBM_MODEL, opens>>
    /\ UNCHANGED <<cliVars, artifact, callVars, changed, threadVars>>

\* total_reimbursement, the sum in the order of the source, and its return.
OrderReturn ==
    /\ DOMAIN parts = 1..6
    /\ last = NoCall
    /\ last' = [called |-> TRUE, trip |-> probe,
                out |-> Ok(DecSum[<<parts[1], parts[2], parts[3], parts[4], parts[5],
                                    parts[6]>>])]
    /\ UNCHANGED <<cliVars, artifact, _GBM_MODEL, opens, probe, first, first_use, changed,
                   threadVars, parts>>

OrderInit ==
    /\ artifact \in {NoFile, SingleDoc(Flt(-7, 2), 3)}
    /\ probe \in Trips
    /\ InitCommon

OrderNext == OrderReturn \/ \E i \in 1..6 : Evaluate(i)

OrderSpec == OrderInit /\ [][OrderNext]_vars

\* One call in a fresh process over a grid of trips around the thresholds
\* of the rule layers.
LayerDays == 1..16 \cup {30, 32}

LayerMiles ==
    {0, 5000, 10000, 15000, 36000, 44000, 44001, 50000, 50025, 70000, 84000, 84001, 120000,
     200000}

LayerReceipts ==
    {0, 148490, 148495, 300990, 500990, 750000, 1000000, 1500490, 2400990, 3200490}

LayerTrips == {Trip(d, m, r) : d \in LayerDays, m \in LayerMiles, r \in LayerReceipts}

LayerInit ==
    /\ artifact \in {NoFile, SingleDoc(Flt(-7, 2), 3)}
    /\ probe = Trip(1, 0, 0)
    /\ InitCommon

LayerNext == \E trip \in LayerTrips : EvalCall(trip)

LayerSpec == LayerInit /\ [][LayerNext]_vars

\* The same grid with the trips of zero days added.
ZeroDayTrips == {Trip(0, m, r) : m \in LayerMiles, r \in LayerReceipts}

AnyDaysNext == \E trip \in LayerTrips \cup ZeroDayTrips : EvalCall(trip)

AnyDaysSpec == LayerInit /\ [][AnyDaysNext]_vars

\* One call in a fresh process whose artifact lacks a schema field.
SchemaInit ==
    /\ artifact \in SchemaDocs
    /\ probe = Trip(1, 0, 0)
    /\ InitCommon

SchemaSpec == SchemaInit /\ [][EvalNext]_vars

(***************************************************************************)
(* Concurrent first access: threads inside _load_gbm_model, one step per   *)
(* statement, with the environment acting on the artifact.                 *)
(***************************************************************************)
\* if _GBM_MODEL is None:
LoadCheck(t) ==
    /\ pc[t] = "idle"
    /\ pc' = [pc EXCEPT ![t] = IF _GBM_MODEL = None THEN "open" ELSE "return"]
    /\ UNCHANGED <<parts, cliVars, artifact, _GBM_MODEL, opens, callVars, changed, local, ret>>

\* with open(model_path, 'r') as f: ... json.load(f)
LoadOpen(t) ==
    /\ pc[t] = "open"
    /\ opens < MaxOpens + NumThreads
    /\ opens' = opens + 1
    /\ LET read == open_and_load(artifact)
       IN  /\ pc' = [pc EXCEPT ![t] = IF read.ok THEN "assign" ELSE "except"]
           /\ local' = [local EXCEPT ![t] = IF read.ok THEN read.val ELSE None]
    /\ UNCHANGED <<parts, cliVars, artifact, _GBM_MODEL, callVars, changed, ret>>

\* _GBM_MODEL = json.load(f)
LoadAssign(t) ==
    /\ pc[t] = "assign"
    /\ _GBM_MODEL' = local[t]
    /\ pc' = [pc EXCEPT ![t] = "return"]
    /\ UNCHANGED <<parts, cliVars, artifact, opens, callVars, changed, local, ret>>

\* except FileNotFoundError: _GBM_MODEL = None
LoadExcept(t) ==
    /\ pc[t] = "except"
    /\ _GBM_MODEL' = None
    /\ pc' = [pc EXCEPT ![t] = "return"]
    /\ UNCHANGED <<parts, cliVars, artifact, opens, callVars, changed, local, ret>>

\* Variant: the document this thread has read is returned, not the cache.
load_return_local(cache, loc) == loc

\* return _GBM_MODEL
load_return(cache, loc) == cache

LoadReturn(t) ==
    /\ pc[t] = "return"
    /\ ret' = [ret EXCEPT ![t] = load_return(_GBM_MODEL, local[t])]
    /\ pc' = [pc EXCEPT ![t] = "done"]
    /\ UNCHANGED <<parts, cliVars, artifact, _GBM_MODEL, opens, callVars, changed, local>>

LoaderInit ==
    /\ artifact \in Docs \cup {NoFile}
    /\ probe = Trip(1, 0, 0)
    /\ InitCommon

LoaderNext ==
    \/ \E t \in Threads : LoadCheck(t)
    \/ \E t \in Threads : LoadOpen(t)
    \/ \E t \in Threads : LoadAssign(t)
    \/ \E t \in Threads : LoadExcept(t)
    \/ \E t \in Threads : LoadReturn(t)
    \/ \E doc \in Docs : PutArtifact(doc)
    \/ RemoveArtifact

LoaderSpec == LoaderInit /\ [][LoaderNext]_vars

(***************************************************************************)
(* Command-line entry point.  An argument is the sequence of its           *)
(* characters.                                                             *)
(***************************************************************************)
DigitValue ==
    ("0" :> 0) @@ ("1" :> 1) @@ ("2" :> 2) @@ ("3" :> 3) @@ ("4" :> 4) @@ ("5" :> 5)
    @@ ("6" :> 6) @@ ("7" :> 7) @@ ("8" :> 8) @@ ("9" :> 9)

\* str.strip(): the argument without leading and trailing blanks.
RECURSIVE StripBlanks(_)
StripBlanks(arg) ==
    IF arg = <<>> THEN arg
    ELSE IF Head(arg) = " " THEN StripBlanks(Tail(arg))
    ELSE IF arg[Len(arg)] = " " THEN StripBlanks(SubSeq(arg, 1, Len(arg) - 1))
    ELSE arg

\* The number a digit string denotes.
RECURSIVE DigitsValue(_)
DigitsValue(digits) ==
    IF digits = <<>> THEN 0
    ELSE 10 * DigitsValue(SubSeq(digits, 1, Len(digits) - 1)) + DigitValue[digits[Len(digits)]]

IsDigits(chars) == \A i \in DOMAIN chars : chars[i] \in DOMAIN DigitValue

\* int(s): blanks around, an optional sign, one or more digits; anything
\* else raises ValueError.
ParseInt(arg) ==
    LET body == StripBlanks(arg)
        signed == body # <<>> /\ Head(body) \in {"-", "+"}
        digits == IF signed THEN Tail(body) ELSE body
    IN  IF digits # <<>> /\ IsDigits(digits)
        THEN Ok(IF signed /\ Head(body) = "-" THEN 0 - DigitsValue(digits)
                ELSE DigitsValue(digits))
        ELSE Raise("ValueError")

\* Decimal(s): blanks around, an optional sign, digits with at most one
\* point and at least one digit; anything else raises
\* decimal.InvalidOperation, which is an ArithmeticError.
ParseDecimal(arg) ==
    LET body == StripBlanks(arg)
        signed == body # <<>> /\ Head(body) \in {"-", "+"}
        number == IF signed THEN Tail(body) ELSE body
        points == {i \in DOMAIN number : number[i] = "."}
        digits == SelectSeq(number, LAMBDA c : c # ".")
        places == IF points = {} THEN 0 ELSE Len(number) - (CHOOSE i \in points : TRUE)
    IN  IF Cardinality(points) <= 1 /\ digits # <<>> /\ IsDigits(digits)
        THEN Ok(Dec(IF signed /\ Head(body) = "-" THEN 0 - DigitsValue(digits)
                    ELSE DigitsValue(digits), places))
        ELSE Raise("InvalidOperation")

\* A printed line.
Line(kind, content) == [kind |-> kind, content |-> content]

\* The script body: usage check, the three conversions in order, the call,
\* the print of the result, and the two except clauses.
Main ==
    /\ exit_status = <<>>
    /\ \E days \in {IF Len(argv) = 3 THEN ParseInt(argv[1]) ELSE Raise("usage")},
          miles \in {IF Len(argv) = 3 THEN ParseDecimal(argv[2]) ELSE Raise("usage")},
          receipts \in {IF Len(argv) = 3 THEN ParseDecimal(argv[3]) ELSE Raise("usage")},
          ld \in {IF Len(argv) = 3 /\ ParseInt(argv[1]).ok /\ ParseDecimal(argv[2]).ok
                  THEN model_load(_GBM_MODEL, artifact, ParseInt(argv[1]).val,
                                  ParseDecimal(argv[2]).val)
                  ELSE _load_gbm_model(_GBM_MODEL, artifact)} :
          IF Len(argv) # 3
          THEN /\ stdout' = Append(stdout, Line("usage", "Usage: python3 calculate_reimbursement.py"))
               /\ exit_status' = <<1>>
               /\ UNCHANGED <<stderr, _GBM_MODEL, opens>>
          ELSE IF ~days.ok
          THEN /\ stdout' = Append(stdout, Line("error", "Error: Invalid input"))
               /\ stderr' = stderr
               /\ exit_status' = <<1>>
               /\ UNCHANGED <<_GBM_MODEL, opens>>
          ELSE IF ~miles.ok \/ ~receipts.ok
          THEN /\ stdout' = Append(stdout, Line("error", "Error"))
               /\ stderr' = stderr
               /\ exit_status' = <<1>>
               /\ UNCHANGED <<_GBM_MODEL, opens>>
          ELSE \E result \in {calculate_reimbursement(ld.ret, days.val, miles.val, receipts.val)} :
               /\ _GBM_MODEL' = ld.cache
               /\ opens' = IF ld.opened THEN opens + 1 ELSE opens
               /\ IF result.ok
                  THEN /\ stdout' = Append(stdout, Line("amount", result.val))
                       /\ stderr' = stderr
                       /\ exit_status' = <<0>>
                  ELSE /\ stdout' = Append(stdout, Line("error", "Error"))
                       /\ stderr' = stderr
                       /\ exit_status' = <<1>>
    /\ UNCHANGED <<parts, artifact, callVars, changed, threadVars, argv>>

\* Arguments for the day count: integers, a decimal, a word, nothing.
DayArgs ==
    {<<"5">>, <<"1", "2">>, <<" ", "7">>, <<"+", "1">>, <<"1", ".", "5">>, <<"x">>, <<>>}

\* Arguments for miles and receipts: decimals, a word, two points, a sign.
AmountArgs ==
    {<<"0">>, <<"1", "0", "0", "0", ".", "5", "0">>, <<"7", "5", "0", ".", "4", "9">>,
     <<"1", "2", "x">>, <<"1", ".", "2", ".", "3">>, <<"-">>}

Argvs ==
    {<<d, m, r>> : d \in DayArgs, m \in AmountArgs, r \in AmountArgs}
    \cup {<<d, m>> : d \in DayArgs, m \in AmountArgs}

CliInit ==
    /\ artifact \in {NoFile, SingleDoc(Flt(-7, 2), 3), Omit(SingleDoc(Flt(-7, 2), 3), "trees")}
    /\ _GBM_MODEL = None
    /\ opens = 0
    /\ last = NoCall
    /\ first = NoCall
    /\ probe = Trip(1, 0, 0)
    /\ changed = FALSE
    /\ first_use = "none"
    /\ pc = [t \in Threads |-> "idle"]
    /\ local = [t \in Threads |-> None]
    /\ ret = [t \in Threads |-> None]
    /\ argv \in Argvs
    /\ stdout = <<>>
    /\ stderr = <<>>
    /\ exit_status = <<>>
    /\ parts = <<>>

CliNext == Main

CliSpec == CliInit /\ [][CliNext]_vars

\* One call of debug_calculation in a fresh process: the load, the printed
\* breakdown and the returned total.
Debug(trip) ==
    /\ last = NoCall
    /\ \E ld \in {model_load(_GBM_MODEL, artifact, trip.days, Dec(trip.miles, 2))} :
          \E result \in {debug_calculation(ld.ret, trip.days, Dec(trip.miles, 2),
                                           Dec(trip.receipts, 3))} :
              /\ ld.opened => opens < MaxOpens
              /\ _GBM_MODEL' = ld.cache
              /\ opens' = IF ld.opened THEN opens + 1 ELSE opens
              /\ last' = [called |-> TRUE, trip |-> trip, model |-> ld.ret,
                          breakdown |-> IF result.ok THEN result.val.breakdown ELSE <<>>,
                          out |-> IF result.ok THEN Ok(result.val.total) ELSE result]
              /\ stdout' = IF result.ok
                            THEN stdout \o <<Line("breakdown", result.val.breakdown),
                                             Line("total", result.val.total)>>
                            ELSE stdout
              /\ first_use' = IF high_mileage_bonus_raises(trip.days, Dec(trip.miles, 2))
                               THEN first_use
                               ELSE IF artifact = NoFile THEN "absent" ELSE "present"
    /\ UNCHANGED <<argv, stderr, exit_status, artifact, probe, first, changed, threadVars,
                   parts>>

\* Trips whose unrounded components carry digits below the cent.
DebugTrips ==
    {Trip(d, m, r) : d \in {1, 2, 5, 7}, m \in {0, 15000, 44000, 50025},
                     r \in {0, 148490, 148495, 750000}}

DebugNext == \E trip \in DebugTrips : Debug(trip)

\* No artifact, or a single model with or without its own shrink and cap.
DebugInit ==
    /\ artifact \in {NoFile}
                    \cup {SingleDoc(i, v) : i \in InitPredictions, v \in LeafScales}
                    \cup {TunedDoc(i, v, sc[1], sc[2]) :
                             i \in InitPredictions, v \in LeafScales, sc \in ShrinkCaps}
    /\ probe = Trip(1, 0, 0)
    /\ InitCommon

DebugSpec == DebugInit /\ [][DebugNext]_vars

(***************************************************************************)
(* Properties.  A completed call is read from `last`: the trip, whether    *)
(* the artifact was there, whether a model was cached on entry, the model  *)
(* used, the five rounded rule components, the raw predictions of the      *)
(* tree models, the residual and the returned total.                       *)
(***************************************************************************)
\* An exact decimal of at most two places, and its amount in cents.
IsCents(x) == x.d = 1 /\ x.rho = 0 /\ x.a <= 2

Cents(x) == x.n * Pow10[2 - x.a]

RuleCents(rec) ==
    Cents(rec.components[1]) + Cents(rec.components[2]) + Cents(rec.components[3])
    + Cents(rec.components[4]) + Cents(rec.components[5])

\* C1: the returned total is the sum of the six components, each rounded
\* half-up to cents on its own, and is a whole number of cents.
C1_SumOfRoundedComponents ==
    (last.called /\ last.out.ok) =>
        /\ IsCents(last.out.val)
        /\ \A i \in 1..5 : IsCents(last.components[i])
        /\ Cents(last.out.val) = RuleCents(last) + Cents(_r[last.residual.val])

\* C1 witness: a call with a model whose residual has digits below the cent
\* and whose mileage component is not zero.
C1_Witness ==
    /\ last.called /\ last.out.ok /\ last.model # None
    /\ ~DecEq[last.residual.val, _r[last.residual.val]]
    /\ Cents(last.components[2]) # 0
    /\ Cents(last.out.val) = RuleCents(last) + Cents(_r[last.residual.val])

\* C2: with the artifact fixed, every call on the probe trip returns what
\* the first call on it returned, whether it loads the model or finds it
\* cached.
C2_Determinism ==
    (~changed /\ first.called /\ last.called /\ last.trip = probe) => last.out = first.out

\* C2 witness: the first probe call loaded the model, a later probe call
\* found it cached, and both returned the same amount with a residual in it.
C2_Witness ==
    /\ ~changed /\ first.called /\ last.called /\ last.trip = probe
    /\ ~first.cached /\ first.model # None /\ last.cached
    /\ last.out = first.out
    /\ Cents(last.out.val) # RuleCents(last)

\* clamp(x, -cap, cap)
Clamp(x, cap) == IF DecLT[x, DecNeg[cap]] THEN DecNeg[cap] ELSE IF DecLT[cap, x] THEN cap ELSE x

ShrinkOf(model) == IF "shrink" \in DOMAIN model THEN model.shrink ELSE Dec(9, 1)

CapOf(model) == IF "cap" \in DOMAIN model THEN model.cap ELSE Dec(600, 0)

\* The raw prediction R of a call, from the predictions of its tree models.
RawOf(rec) ==
    IF Len(rec.predictions) = 2
    THEN FltHalf[FltAdd[rec.predictions[1].val, rec.predictions[2].val]]
    ELSE rec.predictions[1].val

ClampedResidual(rec) ==
    /\ DecEq[rec.residual.val,
             Clamp(DecMul[DecOfFloat[RawOf(rec)], ShrinkOf(rec.model)], CapOf(rec.model))]
    /\ DecLE[DecNeg[CapOf(rec.model)], rec.residual.val]
    /\ DecLE[rec.residual.val, CapOf(rec.model)]

\* C3 as amended: for a cap that is not negative, the residual is
\* clamp(R * shrink, -cap, cap) and lies in [-cap, cap]; shrink and cap are
\* 0.90 and 600 when the artifact omits them.
C3_ClampNonNegativeCap ==
    (last.called /\ last.model # None /\ DecLE[Dec(0, 0), CapOf(last.model)])
        => (last.residual.ok /\ ClampedResidual(last))

\* C3 as stated: the same for every cap.
C3_ClampAnyCap ==
    (last.called /\ last.model # None) => (last.residual.ok /\ ClampedResidual(last))

\* C3 witness: one call clamped at the default cap of an artifact that omits
\* shrink and cap.
C3_Witness ==
    /\ last.called /\ last.model # None
    /\ "cap" \notin DOMAIN last.model /\ "shrink" \notin DOMAIN last.model
    /\ DecLT[DecMul[DecOfFloat[RawOf(last)], Dec(9, 1)], Dec(-600, 0)]
    /\ DecEq[last.residual.val, Dec(-600, 0)]

\* C4 as amended: a call made while the artifact is absent and no model is
\* cached raises nothing, has residual 0.00 and returns the sum of the five
\* rounded rule components.
C4_AbsentAndNotCached ==
    (last.called /\ ~last.present /\ ~last.cached) =>
        /\ last.out.ok /\ last.residual.ok
        /\ DecEq[last.residual.val, Dec(0, 2)]
        /\ Cents(last.out.val) = RuleCents(last)

\* C4 as stated: the same for every call made while the artifact is absent.
C4_AbsentAtCall ==
    (last.called /\ ~last.present) =>
        /\ last.out.ok /\ last.residual.ok
        /\ DecEq[last.residual.val, Dec(0, 2)]
        /\ Cents(last.out.val) = RuleCents(last)

\* C4 witness: a call on a trip with mileage, artifact absent, nothing cached.
C4_Witness ==
    /\ last.called /\ ~last.present /\ ~last.cached
    /\ last.out.ok /\ Cents(last.components[2]) # 0
    /\ Cents(last.out.val) = RuleCents(last)

\* C5 as stated: the artifact file is opened at most once in a process.
C5_OpenedAtMostOnce == opens <= 1

\* C6 as stated: when the artifact was absent at the first call, every call
\* of the process has a zero residual.
C6_AbsentAtFirstUseStaysZero ==
    (first_use = "absent" /\ last.called) =>
        (last.residual.ok /\ DecEq[last.residual.val, Dec(0, 2)])

\* C7: a model in the cache stays there: no step replaces it, changes it or
\* resets the cache to the absent state.
C7_CacheNeverReplaced == [][_GBM_MODEL # None => _GBM_MODEL' = _GBM_MODEL]_vars

\* C7 witness: a call has completed on a cached model after the artifact was
\* replaced or removed, and the cache still holds the model loaded first.
C7_Witness ==
    /\ changed /\ last.called /\ last.cached
    /\ _GBM_MODEL # None /\ artifact # _GBM_MODEL /\ last.model = _GBM_MODEL

\* C8: with the artifact present and unchanged, every thread that has
\* returned from _load_gbm_model returned the artifact's content, and once
\* all have returned the cache holds it.
C8_ConcurrentFirstAccess ==
    (~changed /\ artifact # NoFile) =>
        /\ \A t \in Threads : pc[t] = "done" => ret[t] = artifact
        /\ (\A t \in Threads : pc[t] = "done") => _GBM_MODEL = artifact
        /\ _GBM_MODEL \in {None, artifact}

\* C8 witness: every thread has read the file itself and all have returned.
C8_Witness ==
    /\ ~changed /\ artifact # NoFile
    /\ \A t \in Threads : pc[t] = "done" /\ local[t] = artifact /\ ret[t] = artifact
    /\ opens = NumThreads

\* The leaf a tree sends a feature vector to, by the rule of the claim: the
\* leaf among the indices visited, these being the least set that holds
\* index 0 and, with every node that is not a leaf (both children -1), its
\* left child when features[feat] <= threshold and its right child otherwise.
LeafByRule(tree, features) ==
    LET nodeAt(k) == IF k < 0 THEN tree[Len(tree) + k + 1] ELSE tree[k + 1]
        leaf(k) == nodeAt(k).left = -1 /\ nodeAt(k).right = -1
        goesLeft(k) ==
            LET f == IF nodeAt(k).feat < 0 THEN features[Len(features) + nodeAt(k).feat + 1]
                     ELSE features[nodeAt(k).feat + 1]
            IN  f.n * Pow2[nodeAt(k).threshold.e] <= nodeAt(k).threshold.m * f.d
        child(k) == IF goesLeft(k) THEN nodeAt(k).left ELSE nodeAt(k).right
        indices == (0 - Len(tree))..(Len(tree) - 1)
        closed(S) == 0 \in S /\ \A k \in S : leaf(k) \/ child(k) \in S
        visited == CHOOSE S \in SUBSET indices :
                       closed(S) /\ \A T \in SUBSET indices : closed(T) => S \subseteq T
    IN  CHOOSE k \in visited : leaf(k)

\* init_prediction plus one value * learning_rate per tree, in order.
RECURSIVE PredictionByRule(_, _, _)
PredictionByRule(model, features, upto) ==
    IF upto = 0 THEN model.init_prediction
    ELSE LET tree == model.trees[upto]
             k == LeafByRule(tree, features)
             node == IF k < 0 THEN tree[Len(tree) + k + 1] ELSE tree[k + 1]
         IN  FltAdd[PredictionByRule(model, features, upto - 1),
                    FltMul[node.value, model.learning_rate]]

\* The tree models of an artifact, in the order their predictions are recorded.
TreeModels(model) ==
    IF "is_ensemble" \in DOMAIN model /\ model.is_ensemble THEN <<model.model1, model.model2>>
    ELSE <<model>>

TripFeatures(rec) ==
    feature_vector(rec.model, rec.trip.days, Dec(rec.trip.miles, 2), Dec(rec.trip.receipts, 3))

\* C9: _predict_single_model returns init_prediction plus, per tree in
\* order, value * learning_rate of the leaf reached from index 0 by going
\* left on features[feat] <= threshold and right otherwise, a node being a
\* leaf exactly when both children are -1.
C9_TreeEvaluation ==
    (last.called /\ last.model # None) =>
        /\ Len(last.predictions) = Len(TreeModels(last.model))
        /\ \A i \in 1..Len(last.predictions) :
              /\ last.predictions[i].ok
              /\ last.predictions[i].val =
                    PredictionByRule(TreeModels(last.model)[i], TripFeatures(last),
                                     Len(TreeModels(last.model)[i].trees))

\* C9 witness: a five-day trip of 1000 miles, where two comparisons are
\* decided by equality with the threshold, on a single model.
C9_Witness ==
    /\ last.called /\ last.model # None /\ Len(last.predictions) = 1
    /\ last.trip.days = 5 /\ last.trip.miles = 100000
    /\ Len(last.model.trees) = 3
    /\ last.predictions[1].val =
          PredictionByRule(last.model, TripFeatures(last), 3)

\* max(min(x * shrink, cap), -cap), as the source writes it.
PostProcess(x, model) ==
    DecMax[DecMin[DecMul[x, ShrinkOf(model)], CapOf(model)], DecNeg[CapOf(model)]]

\* C10: for an ensemble the residual is shrink and cap applied once to the
\* mean of the raw predictions of model1 and model2 on the feature vector of
\* the top-level feature list; otherwise it is shrink and cap applied to
\* the prediction of the top-level model.
C10_EnsembleMean ==
    (last.called /\ last.model # None) =>
        IF "is_ensemble" \in DOMAIN last.model /\ last.model.is_ensemble
        THEN /\ last.predictions =
                   <<_predict_single_model(last.model.model1, TripFeatures(last)),
                     _predict_single_model(last.model.model2, TripFeatures(last))>>
             /\ DecEq[last.residual.val,
                      PostProcess(DecMul[DecAdd[DecOfFloat[last.predictions[1].val],
                                                DecOfFloat[last.predictions[2].val]],
                                         Dec(5, 1)],
                                  last.model)]
        ELSE /\ last.predictions = <<_predict_single_model(last.model, TripFeatures(last))>>
             /\ DecEq[last.residual.val,
                      PostProcess(DecOfFloat[last.predictions[1].val], last.model)]

\* C10 witness: an ensemble whose two models predict on different sides of
\* the cap.
C10_Witness ==
    /\ last.called /\ last.model # None
    /\ "is_ensemble" \in DOMAIN last.model /\ last.model.is_ensemble
    /\ Len(last.predictions) = 2
    /\ DecLT[CapOf(last.model), DecMul[DecOfFloat[last.predictions[1].val], ShrinkOf(last.model)]]
    /\ DecLT[DecMul[DecOfFloat[last.predictions[2].val], ShrinkOf(last.model)], CapOf(last.model)]
    /\ last.residual.ok

\* The nine names of the derived feature dictionary.
DerivedFeatureNames ==
    {"trip_duration_days", "miles_traveled", "total_receipts_amount", "miles_per_day",
     "receipts_per_day", "log_receipts", "log_miles", "is_one_day_big", "is_long_hi_eff"}

\* C11: the feature vector has one entry per declared name, in the declared
\* order; at the position of a name that is not a derived feature it holds
\* 0.0, and the prediction completes without error.
C11_UnknownFeatureZero ==
    (last.called /\ last.model # None /\ "features" \in DOMAIN last.model) =>
        /\ Len(last.features) = Len(last.model.features)
        /\ \A i \in 1..Len(last.model.features) :
              IF last.model.features[i] \in DerivedFeatureNames
              THEN last.features[i] =
                      feature_dict(last.trip.days, Dec(last.trip.miles, 2),
                                   Dec(last.trip.receipts, 3))[last.model.features[i]]
              ELSE last.features[i] = Rat(0, 1)
        /\ (\E i \in 1..Len(last.model.features) :
                last.model.features[i] \notin DerivedFeatureNames) => last.out.ok

\* C11 witness: a model that declares two unknown names between known ones
\* and whose trees split on them; the call returned an amount.
C11_Witness ==
    /\ last.called /\ last.model # None /\ "features" \in DOMAIN last.model
    /\ last.model.features[2] \notin DerivedFeatureNames
    /\ last.model.features[5] \notin DerivedFeatureNames
    /\ last.features[2] = Rat(0, 1) /\ last.features[5] = Rat(0, 1)
    /\ last.features[4].n = 1000 * last.features[4].d
    /\ last.model.trees[1][1].feat = 1 /\ last.model.trees[2][1].feat = 4
    /\ last.out.ok

\* C12 as stated: an artifact that parses and violates the schema makes the
\* loader fail: the document is never the cached model and the call returns
\* no amount.
C12_MalformedIsLoadError ==
    (last.called /\ artifact # NoFile /\ ~(SchemaFields \subseteq DOMAIN artifact)) =>
        (_GBM_MODEL # artifact /\ ~last.out.ok)

\* C13 as stated: a call on a model that omits a schema field other than
\* shrink, cap and is_ensemble fails instead of returning an amount.
C13_OmittedFieldFails ==
    (last.called /\ last.model # None /\ ~(SchemaFields \subseteq DOMAIN last.model)) =>
        ~last.out.ok

\* The command line has three arguments and one of them does not convert.
InvalidInput ==
    /\ Len(argv) = 3
    /\ ~ParseInt(argv[1]).ok \/ ~ParseDecimal(argv[2]).ok \/ ~ParseDecimal(argv[3]).ok

\* C14 as stated: on an argument that does not convert, the finished
\* process has printed a message to the error stream and no amount, and has
\* exited with a non-zero status after one attempt.
C14_InvalidInputReported ==
    (exit_status # <<>> /\ InvalidInput) =>
        /\ Len(stderr) = 1 /\ stderr[1].kind = "error"
        /\ \A i \in DOMAIN stdout : stdout[i].kind # "amount"
        /\ exit_status[1] # 0

\* The receipts of a call as a Decimal, and their whole dollars.
ReceiptsOf(rec) == Dec(rec.trip.receipts, 3)

WholeDollars(rec) == Dec(rec.trip.receipts \div 1000, 0)

CentsDigits(rec) == (rec.trip.receipts % 1000) \div 10

\* The rate at which the receipts layer pays the part of the amount above
\* its whole dollars: 0.60, 0.40, 0.20 by the tiers of a one-day trip, 0.60
\* below the trip's total cap and the excess rate of the trip length above.
MarginalReceiptRate(days, dollars) ==
    IF days = 1
    THEN IF dollars < 500 THEN Dec(60, 2) ELSE IF dollars < 1500 THEN Dec(40, 2) ELSE Dec(20, 2)
    ELSE IF dollars * 100 < (IF days <= 7 THEN DAILY_RECEIPT_CAPS[days]
                             ELSE DAILY_RECEIPT_CAPS[7]) * days
    THEN Dec(60, 2)
    ELSE IF days <= 3 THEN Dec(40, 2) ELSE IF days <= 6 THEN Dec(10, 2) ELSE Dec(20, 2)

\* C15 as stated: for cents digits 49 or 99 the receipts layer returns 5.00
\* more than for the whole-dollar amount.
C15_FiveMoreThanWholeDollars ==
    (last.called /\ CentsDigits(last) \in {49, 99}) =>
        DecEq[last.layers[3],
              DecAdd[calculate_layer_2_receipts(last.trip.days, WholeDollars(last)),
                     Dec(500, 2)]]

\* C15 as amended: for cents digits 49 or 99 the receipts layer returns, over
\* its value for the whole-dollar amount, 5.00 plus the part of the amount
\* above the whole dollars paid at the marginal rate.
C15_FiveMoreThanWithoutQuirk ==
    (last.called /\ CentsDigits(last) \in {49, 99}) =>
        DecEq[last.layers[3],
              DecSum[<<calculate_layer_2_receipts(last.trip.days, WholeDollars(last)),
                       DecMul[DecSub[ReceiptsOf(last), WholeDollars(last)],
                              MarginalReceiptRate(last.trip.days,
                                                  last.trip.receipts \div 1000)],
                       Dec(500, 2)>>]]

\* C15 witness: 1500.49 on a nine-day trip, above the total cap of 900.
C15_Witness ==
    /\ last.called /\ last.trip.days = 9 /\ last.trip.receipts = 1500490
    /\ DecEq[last.layers[3], Dec(665098, 3)]

\* Two mileages (in hundredths) lie in the same mileage tier and on the
\* same side of the bonus thresholds of a trip of the given days.
SameMileageRegion(days, m1, m2) ==
    /\ (m1 > 10000) = (m2 > 10000)
    /\ (m1 > 50000) = (m2 > 50000)
    /\ (m1 > 70000) = (m2 > 70000)
    /\ (m1 > 12000 * days) = (m2 > 12000 * days)

\* C16: for fixed days and two mileages m1 < m2 in the same tier and on the
\* same side of every bonus threshold, the mileage layer returns strictly
\* less for m1 than for m2.
C16_MonotoneWithinTier ==
    last.called =>
        \A m2 \in LayerMiles :
            (last.trip.miles < m2 /\ SameMileageRegion(last.trip.days, last.trip.miles, m2)) =>
                DecLT[last.layers[2], calculate_layer_1_mileage(last.trip.days, Dec(m2, 2))]

\* C16 witness: seven days, 840.01 and 2000 miles, both above every
\* threshold, and 150 against 500 miles in the second tier below the bonus.
C16_Witness ==
    /\ last.called /\ last.trip.days = 7 /\ last.trip.miles = 84001
    /\ SameMileageRegion(7, 84001, 200000)
    /\ SameMileageRegion(7, 15000, 50000)
    /\ DecLT[last.layers[2], calculate_layer_1_mileage(7, Dec(200000, 2))]
    /\ DecLT[calculate_layer_1_mileage(7, Dec(15000, 2)),
             calculate_layer_1_mileage(7, Dec(50000, 2))]

\* The daily rate of the claim's table, in dollars.
TabulatedRate(d) ==
    CASE d = 1 -> 120
      [] d \in 2..3 -> 100
      [] d \in 4..6 -> 110
      [] d = 7 -> 75
      [] d = 8 -> 60
      [] d \in 9..10 -> 55
      [] d \in 11..12 -> 60
      [] d = 13 -> 55
      [] d = 14 -> 50
      [] OTHER -> 45

NoMilesNoReceipts(rec) == rec.called /\ rec.trip.miles = 0 /\ rec.trip.receipts = 0

\* The days of the Layer 0 test.
Layer0TestDays(d) == d \in {1, 2, 5, 7, 10, 14} \/ d >= 15

\* The totals the Layer 0 test expects, in cents.
Layer0TestCents(d) ==
    CASE d = 1 -> 14700
      [] d = 2 -> 26000
      [] d = 5 -> 67500
      [] d = 7 -> 66500
      [] d = 10 -> 85000
      [] d = 14 -> 112000
      [] OTHER -> 8000 * d

\* The totals of the rule layers for the same trips, in cents.
Layer0RuleCents(d) ==
    CASE d = 1 -> 12000
      [] d = 2 -> 20000
      [] d = 5 -> 56500
      [] d = 7 -> 52500
      [] d = 10 -> 55000
      [] d = 14 -> 70000
      [] OTHER -> 4500 * d

MileageFormula(days, M) ==
    days * (58 * (IF M <= 10000 THEN M ELSE 10000) + 15 * (IF M > 10000 THEN M - 10000 ELSE 0))
    + (IF M > 50000 THEN (M - 50000) * 30 * (days + 1) ELSE 0)
    + (IF days >= 7 /\ M > 70000 /\ M > 120 * 100 * days THEN days * (M - 70000) * 25 ELSE 0)

\* The Decimal x is the rational N / (10^4 * days), up to what the 28-digit
\* context has rounded off, less than 10^-20.
IsRational4(x, N, days) ==
    /\ x.d \in {1, days}
    /\ IF x.a >= 4 THEN x.n * (days \div x.d) = N * Pow10[x.a - 4]
       ELSE x.n * Pow10[4 - x.a] * (days \div x.d) = N
    /\ x.rho = 0 \/ x.q >= 30 \/ (x.q >= 20 /\ Abs[x.rho] \div x.d < Pow10[x.q - 20])

\* C20: for days >= 1 and miles >= 0 the mileage layer returns
\* base + b1 + b2: base = 0.58 * min(miles, 100) + 0.15 * max(miles - 100, 0),
\* b1 = (miles - 500) * 0.30 * (1 + 1/days) when miles > 500, b2 =
\* (miles - 700) * 0.25 when days >= 7, miles > 700 and miles/days > 120.
C20_MileageFormula ==
    (last.called /\ last.trip.days >= 1) =>
        IsRational4(last.layers[2], MileageFormula(last.trip.days, last.trip.miles),
                    last.trip.days)

\* C20 witness: seven days and 1200 miles, where both bonuses are added:
\* 58 + 165 + 700 * 0.30 * 8/7 + 125 = 588.
C20_Witness ==
    /\ last.called /\ last.trip.days = 7 /\ last.trip.miles = 120000
    /\ MileageFormula(7, 120000) = 7 * 5880000
    /\ IsRational4(last.layers[2], 7 * 5880000, 7)
    /\ IsRational4(calculate_layer_1_mileage(1, Dec(15000, 2)), 655000, 1)

\* The three tiers of the claim for receipts R in thousandths, in units of
\* 10^-5.
OneDayTierFormula(R) ==
    60 * (IF R <= 500000 THEN R ELSE 500000)
    + 40 * (IF R <= 500000 THEN 0 ELSE IF R - 500000 <= 1000000 THEN R - 500000 ELSE 1000000)
    + 20 * (IF R > 1500000 THEN R - 1500000 ELSE 0)

\* C21: for a one-day trip the receipts layer returns 0.60 * min(r, 500)
\* + 0.40 * min(max(r - 500, 0), 1000) + 0.20 * max(r - 1500, 0), and 5.00
\* more exactly when the cents of the amount are 49 or 99; the cap and
\* excess-rate tables play no part.
C21_OneDayReceiptTiers ==
    (last.called /\ last.trip.days = 1) =>
        /\ last.layers[3].d = 1 /\ last.layers[3].rho = 0
        /\ DecEq[last.layers[3],
                 Dec(OneDayTierFormula(last.trip.receipts)
                     + (IF CentsDigits(last) \in {49, 99} THEN 500000 ELSE 0), 5)]

\* C21 witness: 2400.99 on one day reaches the third tier and has the
\* bonus: 300 + 400 + 180.198 + 5.
C21_Witness ==
    /\ last.called /\ last.trip.days = 1 /\ last.trip.receipts = 2400990
    /\ DecEq[last.layers[3], Dec(885198, 3)]

\* The per-day cap and the excess rate of the claim for a trip of at least
\* two days, in dollars and in hundredths.
StatedDailyCap(d) == IF d <= 3 THEN 150 ELSE IF d <= 6 THEN 120 ELSE 100

StatedExcessRate(d) == IF d <= 3 THEN 40 ELSE IF d <= 6 THEN 10 ELSE 20

\* The claim's amount for receipts R in thousandths over d days, in units of
\* 10^-5.
MultiDayFormula(d, R) ==
    LET cap == StatedDailyCap(d) * d * 1000
    IN  60 * (IF R <= cap THEN R ELSE cap)
        + StatedExcessRate(d) * (IF R > cap THEN R - cap ELSE 0)

PerDiemAgainstRateOf(other) ==
    DecCmp[last.layers[1], DecMul[get_base_per_diem_rate(other), Dec(last.trip.days, 0)]]

C28_MonotoneAcrossThresholds ==
    last.called =>
        \A m2 \in LayerMiles :
            last.trip.miles < m2 =>
                DecLT[last.layers[2], calculate_layer_1_mileage(last.trip.days, Dec(m2, 2))]

\* C28 witness: seven days at 840 miles, on the 120 miles-per-day bar, and a
\* hundredth of a mile more, which crosses it and adds the long-trip amount.
C28_Witness ==
    /\ last.called /\ last.trip.days = 7 /\ last.trip.miles = 84000
    /\ ~SameMileageRegion(7, 84000, 84001)
    /\ DecLT[DecAdd[last.layers[2], Dec(35, 0)],
             calculate_layer_1_mileage(7, Dec(84001, 2))]
    /\ DecLT[calculate_layer_1_mileage(7, Dec(10000, 2)),
             calculate_layer_1_mileage(7, Dec(50025, 2))]

\* C29: with days = 0 calculate_reimbursement returns an amount when
\* miles <= 500, and fails with a division by zero in the mileage layer,
\* returning no amount, when miles > 500.
C29_ZeroDays ==
    (last.called /\ last.trip.days = 0) =>
        IF last.trip.miles <= 50000
        THEN /\ last.out.ok /\ IsCents(last.out.val)
             /\ Len(last.layers) = 5
             /\ DecEq[last.layers[1], Dec(0, 0)] /\ DecEq[last.layers[4], Dec(0, 0)]
        ELSE /\ ~last.out.ok /\ last.out.err = "DivisionByZero"
             /\ Len(last.layers) = 1

\* C29 witness: zero days and 500.25 miles fail, while 500 miles with
\* receipts of 148.49 and no model return 118 + 34.70.
C29_Witness ==
    /\ last.called /\ last.trip = Trip(0, 50025, 148490) /\ ~last.out.ok
    /\ calculate_reimbursement(None, 0, Dec(50000, 2), Dec(148490, 3)).ok
    /\ DecEq[calculate_reimbursement(None, 0, Dec(50000, 2), Dec(148490, 3)).val,
             Dec(15270, 2)]

\* The total calculate_reimbursement returns for the trip and the model of
\* a recorded call.
RoundedTotal(rec) ==
    calculate_reimbursement(rec.model, rec.trip.days, Dec(rec.trip.miles, 2),
                            Dec(rec.trip.receipts, 3))

\* Every unrounded component of a recorded call is a multiple of 0.01.
AllInCents(rec) == \A i \in 1..6 : DecEq[rec.breakdown[i], _r[rec.breakdown[i]]]

\* C30: the total debug_calculation returns, the sum of the six unrounded
\* components, differs from the total of calculate_reimbursement by at most
\* 0.03, and the two are equal when every unrounded component is a multiple
\* of 0.01.
C30_DebugWithinThreeCents ==
    (last.called /\ last.out.ok) =>
        /\ RoundedTotal(last).ok
        /\ DecLE[DecSub[last.out.val, RoundedTotal(last).val], Dec(3, 2)]
        /\ DecLE[Dec(-3, 2), DecSub[last.out.val, RoundedTotal(last).val]]
        /\ AllInCents(last) => DecEq[last.out.val, RoundedTotal(last).val]

\* C30 witness: a breakdown printed for a trip whose unrounded total is not
\* the rounded one, and a trip of whole cents where the two agree.
C30_Witness ==
    /\ last.called /\ last.out.ok /\ last.model # None /\ Len(stdout) = 2
    /\ ~AllInCents(last)
    /\ ~DecEq[last.out.val, RoundedTotal(last).val]
    /\ DecEq[debug_calculation(None, 5, Dec(0, 2), Dec(0, 3)).val.total,
             calculate_reimbursement(None, 5, Dec(0, 2), Dec(0, 3)).val]

\* Every non-leaf node's left and right are indices of later nodes of the
\* same tree (indices from 0, as in the source).
WellFormed(tree) ==
    \A k \in 1..Len(tree) :
        ~IsLeaf(tree[k]) => tree[k].left \in k..(Len(tree) - 1) /\ tree[k].right \in k..(Len(tree) - 1)

\* The depth of a well-formed tree below node_idx: the edges of its longest
\* path to a leaf.
RECURSIVE Depth(_, _)
Depth(tree, node_idx) ==
    IF IsLeaf(tree[node_idx + 1]) THEN 0
    ELSE 1 + Max[Depth(tree, tree[node_idx + 1].left), Depth(tree, tree[node_idx + 1].right)]

\* C26: for every model whose trees are well formed, the walk of each tree
\* visits at most depth + 1 nodes, never reads an index outside the tree,
\* and ends on the leaf whose value is used.
C26_WalkTerminates ==
    (last.called /\ last.model # None /\ \A i \in DOMAIN last.predictions : last.predictions[i].ok) =>
        \A i \in DOMAIN TreeModels(last.model) :
            \A t \in DOMAIN TreeModels(last.model)[i].trees :
                LET tree == TreeModels(last.model)[i].trees[t]
                    visited == VisitedNodes(tree, TripFeatures(last), 0)
                IN  WellFormed(tree) =>
                        /\ Len(visited) <= Depth(tree, 0) + 1
                        /\ \A k \in DOMAIN visited : visited[k] \in 0..(Len(tree) - 1)
                        /\ \A k \in 1..(Len(visited) - 1) : visited[k] < visited[k + 1]
                        /\ IsLeaf(tree[visited[Len(visited)] + 1])
                        /\ tree[visited[Len(visited)] + 1].value = WalkTree(tree, TripFeatures(last), 0)

\* C26 witness: a call whose model has a well-formed tree of depth 2 that is
\* walked to its full depth, three nodes, and one left after two.
C26_Witness ==
    /\ last.called /\ last.model # None /\ \A i \in DOMAIN last.predictions : last.predictions[i].ok
    /\ \E t \in DOMAIN TreeModels(last.model)[1].trees :
           LET tree == TreeModels(last.model)[1].trees[t]
           IN  /\ WellFormed(tree) /\ Depth(tree, 0) = 2
               /\ Len(VisitedNodes(tree, TripFeatures(last), 0)) = 3
    /\ \E t \in DOMAIN TreeModels(last.model)[1].trees :
           LET tree == TreeModels(last.model)[1].trees[t]
           IN  WellFormed(tree) /\ Len(VisitedNodes(tree, TripFeatures(last), 0)) = 2

\* What calculate_reimbursement, with its own order, leaves for the trip
\* under evaluation in a fresh process.
InSourceOrder == CallRecord(probe, artifact, None)

====
